---- MODULE Spec2Model ----
(***************************************************************************)
(* Model of examples/py/ddog_logger.py: the ctypes wrapper around the      *)
(* native logger (ddog_logger_init, ddog_logger_set_max_log_level,         *)
(* trigger_logs, trigger_logs_with_args) and the example sink              *)
(* log_callback with the struct decoders CharSlice.to_str and              *)
(* LogFieldVec.to_list.                                                    *)
(*                                                                         *)
(* The native library itself is not part of the sources.  Its behaviour    *)
(* (level filter, sink registration, synchronous call-through, struct      *)
(* encoding) is modelled from the specification and is confined to the     *)
(* definitions whose names start with "Native".                            *)
(***************************************************************************)
EXTENDS Integers, Sequences, FiniteSets, TLC

\* ------------------------------------------------------------------ bounds
NThreads == 2      \* Python threads calling the wrappers
MaxCbs == 2        \* CALLBACK_TYPE objects created (= ddog_logger_init calls)
MaxCalls == 2      \* sink invocations
MaxFields == 2     \* fields of one event
MaxSlack == 1      \* capacity - len of an encoded field vector

\* ------------------------------------------------------- class LogLevel
DEBUG == 0
INFO == 1
WARN == 2
ERROR == 3
TRACE == 4

LogLevels == {DEBUG, INFO, WARN, ERROR, TRACE}

\* --------------------------------------------------------------- values
Threads == 1..NThreads
Sinks == {"f", "g"}                     \* Python callables given to init
NoCb == 0                               \* None / no registration
Messages == {<<"x">>, <<"y", "z">>}     \* message texts (sequences of chars)
BadByte == "\\xff"                      \* a byte that is not valid UTF-8
Replacement == "U+FFFD"
Garbage == [key |-> <<"?">>, value |-> <<"?">>]   \* memory past len
FieldValues ==
    { [key |-> <<"a">>, value |-> <<"1">>],
      [key |-> <<"b">>, value |-> <<"2">>],
      [key |-> <<"a">>, value |-> <<"2">>] }

RECURSIVE SeqsUpTo(_, _)
SeqsUpTo(S, n) ==
    IF n = 0 THEN {<<>>}
    ELSE LET shorter == SeqsUpTo(S, n - 1)
         IN  shorter \cup {Append(s, x) : s \in shorter, x \in S}

FieldSeqs == SeqsUpTo(FieldValues, MaxFields)

\* The field sequences the demonstration trigger attaches.
SampleFields ==
    { <<[key |-> <<"a">>, value |-> <<"1">>], [key |-> <<"b">>, value |-> <<"2">>]>> }

\* ------------------------------------------------- ctypes struct values
\* A pointer is either NULL or the memory it points to.
NullPtr == [null |-> TRUE, mem |-> <<>>]
PtrTo(m) == [null |-> FALSE, mem |-> m]

\* bytes.decode("utf-8", errors="replace"): every undecodable byte is replaced
Utf8Decode(bytes) ==
    [i \in 1..Len(bytes) |-> IF bytes[i] = BadByte THEN Replacement ELSE bytes[i]]

\* CharSlice.to_str
ToStr(slice) ==
    IF slice.data.null \/ slice.len = 0
    THEN <<>>
    ELSE Utf8Decode([i \in 1..slice.len |-> slice.data.mem[i]])

\* to_list as it would be with range(self.capacity)
ToListCapacity(vec) ==
    IF vec.ptr.null \/ vec.len = 0
    THEN <<>>
    ELSE [i \in 1..vec.capacity |-> vec.ptr.mem[i]]

\* LogFieldVec.to_list: [self.ptr[i] for i in range(self.len)]
ToList(vec) ==
    IF vec.ptr.null \/ vec.len = 0
    THEN <<>>
    ELSE [i \in 1..vec.len |-> vec.ptr.mem[i]]

\* the dict lookup of log_callback, with its default
LevelName(level) ==
    CASE level = DEBUG -> "DEBUG"
      [] level = INFO -> "INFO"
      [] level = WARN -> "WARN"
      [] level = ERROR -> "ERROR"
      [] level = TRACE -> "TRACE"
      [] OTHER -> "UNKNOWN"

\* the loop of log_callback over event.fields.to_list()
PrintFields(vec) ==
    LET fields == ToList(vec)
    IN  [i \in 1..Len(fields) |->
            [key |-> ToStr(fields[i].key), value |-> ToStr(fields[i].value)]]

\* log_callback(event): what the sink prints for one event
LogCallback(event) ==
    [level_name |-> LevelName(event.level),
     message |-> ToStr(event.message),
     fields |-> PrintFields(event.fields)]

\* _check_error as it would be if it only reported and did not raise
CheckErrorSwallow(result) == FALSE

\* _check_error(result): TRUE when it raises RuntimeError
CheckError(result) == result # 0

\* ------------------------------------- native side: struct construction
\* A Rust string slice: a non-null pointer and the byte length.
NativeCharSlice(text) == [data |-> PtrTo(text), len |-> Len(text)]

NativeField(f) == [key |-> NativeCharSlice(f.key), value |-> NativeCharSlice(f.value)]

NativeGarbage == NativeField(Garbage)

\* A Rust Vec<LogField>: len initialised elements, capacity - len spare ones.
NativeFieldVec(fields, slack) ==
    [ptr |-> PtrTo([i \in 1..(Len(fields) + slack) |->
                       IF i <= Len(fields) THEN NativeField(fields[i])
                       ELSE NativeGarbage]),
     len |-> Len(fields),
     capacity |-> Len(fields) + slack]

NativeEvent(arg, slack) ==
    [level |-> arg.level,
     message |-> NativeCharSlice(arg.msg),
     fields |-> NativeFieldVec(arg.fields, slack)]

\* ---------------------------------------------------------------- state
VARIABLES
    holder,      \* _callback_holder: NoCb (None) or a CALLBACK_TYPE object
    cbs,         \* cbs[c]: the Python callable wrapped by CALLBACK_TYPE object c
    nativeSink,  \* native side: the registered callback pointer, or NoCb
    threshold,   \* native side: the level threshold
    pc,          \* pc[t]: where thread t stands inside a wrapper call
    frame,       \* frame[t]: the locals of the call thread t is in
    calls,       \* sink invocations so far
    crashed,     \* the process died in a call through a freed callback
    given,       \* field decoding: the fields given to emit_with_fields
    vec,         \* field decoding: the LogFieldVec handed to the sink
    visited,     \* field decoding: what the loop of log_callback has printed
    dpc          \* field decoding: position of the loop

vars == <<holder, cbs, nativeSink, threshold, pc, frame, calls, crashed,
          given, vec, visited, dpc>>

loggerVars == <<holder, cbs, nativeSink, threshold, pc, frame, calls, crashed>>
decodeVars == <<given, vec, visited, dpc>>

NoArg == [level |-> DEBUG, msg |-> <<>>, fields |-> <<>>]
NoPrinted == [level_name |-> "", message |-> <<>>, fields |-> <<>>]
NoFrame ==
    [level |-> DEBUG, cb |-> NoCb, result |-> 0, ncalls |-> 0,
     arg |-> NoArg, target |-> NoCb, printed |-> NoPrinted]

EmptyVec == [ptr |-> NullPtr, len |-> 0, capacity |-> 0]

\* CALLBACK_TYPE objects created so far
Allocated == 1..Len(cbs)

\* A CALLBACK_TYPE object stays alive while the module global or the local
\* variable cb of a running ddog_logger_init refers to it.
Referenced(c) ==
    \/ holder = c
    \/ \E t \in Threads : pc[t] \in {"init_call", "init_check"} /\ frame[t].cb = c

InFlight == Cardinality({t \in Threads : pc[t] = "in_callback"})

\* A thread outside every wrapper call: its last call returned ("idle") or
\* raised RuntimeError into its caller ("raised").
Idle(t) == pc[t] \in {"idle", "raised"}

\* The module has just been imported: nothing is held or registered.  The
\* native threshold before the first init is not known: any level.
LoggerInit ==
    /\ holder = NoCb
    /\ cbs = <<>>
    /\ nativeSink = NoCb
    /\ threshold \in LogLevels
    /\ pc = [t \in Threads |-> "idle"]
    /\ frame = [t \in Threads |-> NoFrame]
    /\ calls = 0
    /\ crashed = FALSE

Init ==
    /\ LoggerInit
    /\ given = <<>>
    /\ vec = EmptyVec
    /\ visited = <<>>
    /\ dpc = "off"

\* ------------------------------------- native side: logger operations
\* init(level, sink): installs threshold and sink together, or fails and
\* leaves the registration as it was.  result: 0 is NULL, 1 a Box<Error>.
NativeInit(level, cb, ok) ==
    IF ok
    THEN [sink |-> cb, threshold |-> level, result |-> 0]
    ELSE [sink |-> nativeSink, threshold |-> threshold, result |-> 1]

\* set_max_level(level): replaces the threshold, or fails and leaves it.
NativeSetMaxLevel(level, ok) ==
    IF ok
    THEN [threshold |-> level, result |-> 0]
    ELSE [threshold |-> threshold, result |-> 1]

\* the level filter of emit
NativePasses(level) == nativeSink # NoCb /\ level >= threshold

\* The callbacks a passing emit may end up calling.  A live registration is
\* called; a freed one is undefined behaviour: the process dies or whatever
\* closure occupies the memory runs.
NativeTargets ==
    IF Referenced(nativeSink) THEN {nativeSink} ELSE Allocated

NativeMayCrash == ~Referenced(nativeSink)

\* emit(level, msg, fields) entered by thread t: filtered out ("emit_noop"), or
\* the sink is called on this thread ("in_callback")
NativeEmit(t, arg) ==
    IF ~NativePasses(arg.level)
    THEN /\ pc' = [pc EXCEPT ![t] = "emit_noop"]
         /\ frame' = [frame EXCEPT ![t] = [NoFrame EXCEPT !.arg = arg]]
         /\ UNCHANGED crashed
    ELSE /\ calls + InFlight < MaxCalls
         /\ \/ /\ \E c \in NativeTargets :
                     frame' = [frame EXCEPT ![t] = [NoFrame EXCEPT !.arg = arg, !.target = c]]
               /\ pc' = [pc EXCEPT ![t] = "in_callback"]
               /\ UNCHANGED crashed
            \/ /\ NativeMayCrash
               /\ crashed' = TRUE
               /\ UNCHANGED <<pc, frame>>

\* ------------------------------------------------------- the wrappers
\* lines 96-98 as they would be without the global statement: the assignment
\* makes a local, and the module global keeps its value
InitStoreLocal(t, level, callback) ==
    /\ ~crashed
    /\ Idle(t)
    /\ Len(cbs) < MaxCbs
    /\ cbs' = Append(cbs, callback)
    /\ frame' = [frame EXCEPT ![t] = [NoFrame EXCEPT !.level = level, !.cb = Len(cbs) + 1]]
    /\ pc' = [pc EXCEPT ![t] = "init_call"]
    /\ UNCHANGED <<holder, nativeSink, threshold, calls, crashed, decodeVars>>

\* ddog_logger_init, lines 96-98: cb = CALLBACK_TYPE(callback); _callback_holder = cb
InitStore(t, level, callback) ==
    /\ ~crashed
    /\ Idle(t)
    /\ Len(cbs) < MaxCbs
    /\ cbs' = Append(cbs, callback)
    /\ holder' = Len(cbs) + 1
    /\ frame' = [frame EXCEPT ![t] = [NoFrame EXCEPT !.level = level, !.cb = Len(cbs) + 1]]
    /\ pc' = [pc EXCEPT ![t] = "init_call"]
    /\ UNCHANGED <<nativeSink, threshold, calls, crashed, decodeVars>>

\* line 99 as it would be with (level or LogLevel.INFO) for the level: a
\* falsy level, LogLevel.DEBUG, is replaced by the default
InitNativeTruthy(t) ==
    /\ ~crashed
    /\ pc[t] = "init_call"
    /\ \E ok \in BOOLEAN :
          LET passed == IF frame[t].level = 0 THEN INFO ELSE frame[t].level
              r == NativeInit(passed, frame[t].cb, ok)
          IN  /\ nativeSink' = r.sink
              /\ threshold' = r.threshold
              /\ frame' = [frame EXCEPT ![t].result = r.result,
                                        ![t].ncalls = frame[t].ncalls + 1]
    /\ pc' = [pc EXCEPT ![t] = "init_check"]
    /\ UNCHANGED <<holder, cbs, calls, crashed, decodeVars>>

\* ddog_logger_init, line 99: result = lib.ddog_logger_init(level, cb)
InitNative(t) ==
    /\ ~crashed
    /\ pc[t] = "init_call"
    /\ \E ok \in BOOLEAN :
          LET r == NativeInit(frame[t].level, frame[t].cb, ok)
          IN  /\ nativeSink' = r.sink
              /\ threshold' = r.threshold
              /\ frame' = [frame EXCEPT ![t].result = r.result,
                                        ![t].ncalls = frame[t].ncalls + 1]
    /\ pc' = [pc EXCEPT ![t] = "init_check"]
    /\ UNCHANGED <<holder, cbs, calls, crashed, decodeVars>>

\* ddog_logger_init, line 100: _check_error(result), then the call ends
InitCheck(t) ==
    /\ ~crashed
    /\ pc[t] = "init_check"
    /\ pc' = [pc EXCEPT ![t] = IF CheckError(frame[t].result) THEN "raised" ELSE "idle"]
    /\ frame' = [frame EXCEPT ![t] = NoFrame]
    /\ UNCHANGED <<holder, cbs, nativeSink, threshold, calls, crashed, decodeVars>>

\* line 104 as it would be under a guard "if level:": LogLevel.DEBUG is falsy
\* and the native call is skipped
SetCallTruthy(t, level) ==
    /\ ~crashed
    /\ Idle(t)
    /\ \E ok \in BOOLEAN :
          LET r == IF level = 0 THEN [threshold |-> threshold, result |-> 0]
                   ELSE NativeSetMaxLevel(level, ok)
          IN  /\ threshold' = r.threshold
              /\ frame' = [frame EXCEPT ![t] =
                              [NoFrame EXCEPT !.level = level, !.result = r.result,
                                              !.ncalls = IF level = 0 THEN 0 ELSE 1]]
    /\ pc' = [pc EXCEPT ![t] = "set_check"]
    /\ UNCHANGED <<holder, cbs, nativeSink, calls, crashed, decodeVars>>

\* ddog_logger_set_max_log_level, line 104
SetCall(t, level) ==
    /\ ~crashed
    /\ Idle(t)
    /\ \E ok \in BOOLEAN :
          LET r == NativeSetMaxLevel(level, ok)
          IN  /\ threshold' = r.threshold
              /\ frame' = [frame EXCEPT ![t] =
                              [NoFrame EXCEPT !.level = level, !.result = r.result, !.ncalls = 1]]
    /\ pc' = [pc EXCEPT ![t] = "set_check"]
    /\ UNCHANGED <<holder, cbs, nativeSink, calls, crashed, decodeVars>>

\* line 105 as it would be if the error path also let go of the callback
SetCheckCleanup(t) ==
    /\ ~crashed
    /\ pc[t] = "set_check"
    /\ pc' = [pc EXCEPT ![t] = IF CheckError(frame[t].result) THEN "raised" ELSE "idle"]
    /\ holder' = IF CheckError(frame[t].result) THEN NoCb ELSE holder
    /\ frame' = [frame EXCEPT ![t] = NoFrame]
    /\ UNCHANGED <<cbs, nativeSink, threshold, calls, crashed, decodeVars>>

\* ddog_logger_set_max_log_level, line 105
SetCheck(t) ==
    /\ ~crashed
    /\ pc[t] = "set_check"
    /\ pc' = [pc EXCEPT ![t] = IF CheckError(frame[t].result) THEN "raised" ELSE "idle"]
    /\ frame' = [frame EXCEPT ![t] = NoFrame]
    /\ UNCHANGED <<holder, cbs, nativeSink, threshold, calls, crashed, decodeVars>>

\* trigger_logs: lib.trigger_logs(), an emit without fields
TriggerLogs(t) ==
    /\ ~crashed
    /\ Idle(t)
    /\ \E level \in LogLevels, msg \in Messages :
          NativeEmit(t, [level |-> level, msg |-> msg, fields |-> <<>>])
    /\ UNCHANGED <<holder, cbs, nativeSink, threshold, calls, decodeVars>>

\* trigger_logs_with_args: lib.trigger_logs_with_args(), an emit with fields
TriggerLogsWithArgs(t) ==
    /\ ~crashed
    /\ Idle(t)
    /\ \E level \in LogLevels, msg \in Messages, fields \in SampleFields :
          NativeEmit(t, [level |-> level, msg |-> msg, fields |-> fields])
    /\ UNCHANGED <<holder, cbs, nativeSink, threshold, calls, decodeVars>>

\* the sink runs: the callable behind the called CALLBACK_TYPE object decodes
\* the LogEvent it was handed, as log_callback does
CallbackRun(t) ==
    /\ ~crashed
    /\ pc[t] = "in_callback"
    /\ \E slack \in 0..MaxSlack :
          frame' = [frame EXCEPT ![t].printed = LogCallback(NativeEvent(frame[t].arg, slack))]
    /\ calls' = calls + 1
    /\ pc' = [pc EXCEPT ![t] = "cb_done"]
    /\ UNCHANGED <<holder, cbs, nativeSink, threshold, crashed, decodeVars>>

\* the return as it would be if the wrappers passed the value of the void
\* native function to _check_error: whatever the register holds decides
EmitReturnChecked(t) ==
    /\ ~crashed
    /\ pc[t] \in {"cb_done", "emit_noop"}
    /\ \E result \in {0, 1} :
          pc' = [pc EXCEPT ![t] = IF CheckError(result) THEN "raised" ELSE "idle"]
    /\ frame' = [frame EXCEPT ![t] = NoFrame]
    /\ UNCHANGED <<holder, cbs, nativeSink, threshold, calls, crashed, decodeVars>>

\* the native emit returns to trigger_logs / trigger_logs_with_args, which return
EmitReturn(t) ==
    /\ ~crashed
    /\ pc[t] \in {"cb_done", "emit_noop"}
    /\ pc' = [pc EXCEPT ![t] = "idle"]
    /\ frame' = [frame EXCEPT ![t] = NoFrame]
    /\ UNCHANGED <<holder, cbs, nativeSink, threshold, calls, crashed, decodeVars>>

ThreadNext(t) ==
    \/ \E level \in LogLevels, callback \in Sinks : InitStore(t, level, callback)
    \/ InitNative(t)
    \/ InitCheck(t)
    \/ \E level \in LogLevels : SetCall(t, level)
    \/ SetCheck(t)
    \/ TriggerLogs(t)
    \/ TriggerLogsWithArgs(t)
    \/ CallbackRun(t)
    \/ EmitReturn(t)

\* any number of threads call the wrappers
Next == \E t \in Threads : ThreadNext(t)

Spec == Init /\ [][Next]_vars

\* the program as the example runs it: one thread makes every call
SeqNext == ThreadNext(1)

SeqSpec == Init /\ [][SeqNext]_vars

\* ------------------------------------------- field decoding, step by step
\* The sink side of emit_with_fields on its own: the native side builds the
\* LogFieldVec of the given fields, and log_callback walks it.
DecodeInit ==
    /\ LoggerInit
    /\ given \in FieldSeqs
    /\ vec = EmptyVec
    /\ visited = <<>>
    /\ dpc = "emit"

\* the native side hands over the vector it built
DecodeEncode ==
    /\ dpc = "emit"
    /\ \E slack \in 0..MaxSlack : vec' = NativeFieldVec(given, slack)
    /\ dpc' = "loop"
    /\ UNCHANGED <<given, visited, loggerVars>>

\* a vector without memory: ptr is NULL, whatever len and capacity say
DecodeNullVec ==
    /\ dpc = "emit"
    /\ given = <<>>
    /\ \E n \in 0..MaxFields : vec' = [ptr |-> NullPtr, len |-> n, capacity |-> n]
    /\ dpc' = "loop"
    /\ UNCHANGED <<given, visited, loggerVars>>

\* one pass of: for field in event.fields.to_list(): print(key, value)
DecodeVisit ==
    /\ dpc = "loop"
    /\ Len(visited) < Len(ToList(vec))
    /\ LET field == ToList(vec)[Len(visited) + 1]
       IN  visited' = Append(visited, [key |-> ToStr(field.key), value |-> ToStr(field.value)])
    /\ UNCHANGED <<given, vec, dpc, loggerVars>>

\* the loop is exhausted
DecodeDone ==
    /\ dpc = "loop"
    /\ Len(visited) = Len(ToList(vec))
    /\ dpc' = "done"
    /\ UNCHANGED <<given, vec, visited, loggerVars>>

DecodeNext == DecodeEncode \/ DecodeNullVec \/ DecodeVisit \/ DecodeDone

DecodeSpec == DecodeInit /\ [][DecodeNext]_vars

\* ------------------------------------------------ steps, for the properties
\* thread t's native init call is made by this step
InitDone(t) == pc[t] = "init_call" /\ pc'[t] = "init_check"
InitOk(t) == InitDone(t) /\ frame'[t].result = 0
\* thread t's ddog_logger_init ends with this step
InitEnds(t) == pc[t] = "init_check" /\ pc'[t] # "init_check"
\* thread t's native set_max_level call is made by this step
SetDone(t) == Idle(t) /\ pc'[t] = "set_check"
SetEnds(t) == pc[t] = "set_check" /\ pc'[t] # "set_check"
\* thread t's emit is filtered out / calls the sink
Filtered(t) == Idle(t) /\ pc'[t] = "emit_noop"
Invoked(t) == Idle(t) /\ pc'[t] = "in_callback"
EmitBegins(t) == Filtered(t) \/ Invoked(t)
\* the sink invoked for thread t's emit runs to its end
SinkRuns(t) == pc[t] = "in_callback" /\ pc'[t] # "in_callback"
\* thread t's trigger_logs / trigger_logs_with_args ends with this step
EmitEnds(t) == pc[t] \in {"emit_noop", "cb_done"} /\ pc'[t] # pc[t]
InInit(t) == pc[t] \in {"init_call", "init_check"}

\* what a sink must see of the emit arguments
Expected(arg) ==
    [level_name |-> LevelName(arg.level), message |-> arg.msg, fields |-> arg.fields]

\* ------------------------------------------------------------ properties

\* C7: the fields the sink prints are the fields given to emit_with_fields,
\* element for element: same length, same order, duplicate keys kept.  The
\* loop visits the first len elements in index order, and nothing at all when
\* ptr is NULL or len is 0.
C7_FieldsPreserved ==
    /\ Len(visited) <= Len(given)
    /\ \A i \in 1..Len(visited) : visited[i] = given[i]
    /\ dpc \in {"loop", "done"} => Len(visited) <= vec.len
    /\ dpc = "done" =>
          /\ visited = (IF vec.ptr.null \/ vec.len = 0 THEN <<>> ELSE given)
          /\ ~vec.ptr.null => Len(visited) = vec.len

\* two fields with one key were given, the vector has spare capacity, and the
\* loop has ended having printed both
C7_Witness ==
    /\ dpc = "done"
    /\ vec.capacity > vec.len
    /\ Len(visited) = 2
    /\ visited[1].key = visited[2].key
    /\ visited[1].value # visited[2].value

\* the registration is the callback the wrapper holds, and no init is running
Settled ==
    /\ nativeSink # NoCb
    /\ holder = nativeSink
    /\ \A u \in Threads : ~InInit(u)

\* C1: an emit whose level is below the current threshold never invokes the
\* sink and leaves the call count as it is; the threshold a successful init
\* installs is the level it was called with, so that after init(WARN, sink)
\* an INFO emit is filtered out.  The count moves only when an invoked sink
\* runs.
C1_BelowThresholdFiltered ==
    [][\A t \in Threads :
          /\ InitOk(t) => threshold' = frame[t].level
          /\ (EmitBegins(t) /\ frame'[t].arg.level < threshold)
                => (Filtered(t) /\ calls' = calls /\ ~crashed')
          /\ (EmitBegins(t) /\ threshold = WARN /\ frame'[t].arg.level = INFO)
                => Filtered(t)
          /\ calls' # calls => \E u \in Threads : SinkRuns(u)
      ]_vars

\* a sink is registered, the threshold is WARN, an INFO emit was filtered out
\* and the sink has never been called
C1_Witness ==
    \E t \in Threads :
        /\ pc[t] = "emit_noop"
        /\ frame[t].arg.level = INFO
        /\ threshold = WARN
        /\ nativeSink # NoCb
        /\ calls = 0

\* C2: an emit at or above the threshold, with a sink registered, invokes the
\* registered sink, once, with the level, message and fields of the emit, and
\* returns only after the sink has returned; no emit is lost.
C2_DeliveredExactlyOnce ==
    [][\A t \in Threads :
          /\ nativeSink # NoCb => crashed' = crashed
          /\ (EmitBegins(t) /\ nativeSink # NoCb /\ frame'[t].arg.level >= threshold)
                => Invoked(t)
          /\ Invoked(t) => frame'[t].target = nativeSink
          /\ SinkRuns(t) =>
                /\ pc'[t] = "cb_done"
                /\ calls' = calls + 1
                /\ frame'[t].printed = Expected(frame[t].arg)
          /\ EmitEnds(t) => calls' = calls
      ]_vars

\* C3: a successful init registers the callback object it has just created
\* and stored, a different one from the one registered before; from then on,
\* through any emit and set_max_level calls, that registration stays, every
\* emit that passes the filter invokes it, and no other callback is invoked.
C3_SecondInitReplaces ==
    [][\A t \in Threads :
          /\ InitOk(t) =>
                /\ nativeSink' = frame[t].cb
                /\ nativeSink' = holder
                /\ nativeSink' # nativeSink
          /\ (InitEnds(t) /\ pc'[t] = "idle") => Settled'
          /\ (Settled /\ (EmitBegins(t) \/ SinkRuns(t) \/ SetDone(t) \/ SetEnds(t)))
                => (Settled' /\ nativeSink' = nativeSink)
          /\ (Settled /\ EmitBegins(t) /\ frame'[t].arg.level >= threshold)
                => (Invoked(t) /\ frame'[t].target = nativeSink)
          /\ Settled => ~crashed'
      ]_vars

\* the second callback object, wrapping another callable than the first, is
\* registered and has been invoked after the first had been
C3_Witness ==
    /\ cbs = <<"f", "g">>
    /\ nativeSink = 2
    /\ calls = 2
    /\ \E t \in Threads : pc[t] = "cb_done" /\ frame[t].target = 2

\* C4: between calls, the callback registered with the logger is the one
\* _callback_holder holds, also after an init whose native call failed.
C4_RegisteredCallbackHeld ==
    ((\A t \in Threads : Idle(t)) /\ nativeSink # NoCb) => holder = nativeSink

\* C5: a successful set_max_level(level) makes level the threshold and a
\* failed one leaves it; the call touches no emit already begun; the
\* threshold changes at no other step than a native set_max_level or init;
\* and an emit is filtered against the threshold in force when it begins.
C5_ThresholdUpdate ==
    [][\A t \in Threads :
          /\ SetDone(t) =>
                /\ threshold' = (IF frame'[t].result = 0 THEN frame'[t].level ELSE threshold)
                /\ frame'[t].ncalls = 1
                /\ \A u \in Threads \ {t} : pc'[u] = pc[u] /\ frame'[u] = frame[u]
          /\ threshold' # threshold => \E u \in Threads : SetDone(u) \/ InitDone(u)
          /\ (EmitBegins(t) /\ nativeSink # NoCb)
                => (Filtered(t) <=> frame'[t].arg.level < threshold)
      ]_vars

\* with a sink registered and called once before, the native call of
\* set_max_level(DEBUG) has succeeded and DEBUG is the threshold
C5_Witness ==
    \E t \in Threads :
        /\ pc[t] = "set_check"
        /\ frame[t].level = DEBUG
        /\ frame[t].result = 0
        /\ threshold = DEBUG
        /\ nativeSink # NoCb
        /\ holder = nativeSink
        /\ calls = 1

\* C6: ddog_logger_init and ddog_logger_set_max_log_level end by raising
\* exactly when their native call returned non-null and by returning exactly
\* when it returned null, having made one native call.
C6_ErrorsSurface ==
    [][\A t \in Threads :
          (InitEnds(t) \/ SetEnds(t)) =>
              /\ pc'[t] \in {"idle", "raised"}
              /\ pc'[t] = "raised" <=> frame[t].result # 0
              /\ pc'[t] = "idle" <=> frame[t].result = 0
              /\ frame[t].ncalls = 1
      ]_vars

\* an init has returned normally (its callback is registered) and a later
\* init, whose native call failed, has raised
C6_Witness ==
    \E t \in Threads :
        /\ pc[t] = "raised"
        /\ nativeSink = 1
        /\ holder = 2

\* C8: set_max_level changes neither the registered sink, nor the held
\* callback, nor the count of delivered events.
C8_SetMaxLevelFrame ==
    [][\A t \in Threads :
          (SetDone(t) \/ SetEnds(t)) =>
              /\ holder' = holder
              /\ cbs' = cbs
              /\ nativeSink' = nativeSink
              /\ calls' = calls
              /\ crashed' = crashed
      ]_vars

\* a failed set_max_level has raised, with a sink registered, held and already
\* called
C8_Witness ==
    \E t \in Threads :
        /\ pc[t] = "raised"
        /\ nativeSink # NoCb
        /\ holder = nativeSink
        /\ calls > 0
        /\ Len(cbs) = 1

\* C9: while an init call is in progress there is no state in which the held
\* callback differs from the callback the logger invokes.
C9_NoIntermediateState ==
    (nativeSink # NoCb /\ \E t \in Threads : pc[t] = "init_call")
        => holder = nativeSink

====
